---------------------------- MODULE Spec2Model ----------------------------
(* A state-machine model of the sorting routines of C_Algorithms:          *)
(*   heapsort.c : Heap_sort and its private helpers                        *)
(*   sorting.c  : Sort_bubble (linked list), Sort_bubble_array,            *)
(*                Sort_selection_array, Sort_quicksort_array               *)
(* Every routine is modelled statement group by statement group with a     *)
(* program counter.  C arrays are sequences; the C index i is position     *)
(* i+1 of the sequence.  An access outside the object, or through a null   *)
(* pointer, is undefined behaviour: the step records the fault and the     *)
(* run ends either killed or in a state about which nothing is known.      *)
(* Element values are small non-negative numbers, on which the comparison  *)
(* of char is the same whether char is signed or not.                      *)
EXTENDS Integers, Sequences, FiniteSets, TLC

VARIABLES
    pc,          \* position in the routine being run
    the_array,   \* the caller's array (char the_array[] / chararray[])
    input,       \* the array as it was at the call (never written)
    accessed,    \* the C indices read or written so far
    fault,       \* "none", or the undefined behaviour that happened
    heap,        \* the heap descriptor, the pointer to it, malloc/free counts
    list,        \* the linked list: head fields and the nodes
    input_list,  \* the list as it was at the call (never written)
    loc          \* local variables and arguments of the running routine

vars == <<pc, the_array, input, accessed, fault, heap, list, input_list, loc>>

-----------------------------------------------------------------------------
(* Bounds of the model *)

MaxLen == 4     \* longest array / list
MaxVal == 2     \* element values are 0..MaxVal

Values == 0..MaxVal

Arrays == UNION {[1..n -> Values] : n \in 0..MaxLen}

\* the two end-to-end examples of the specification
Examples == {<<5, 3, 8, 1, 9, 2>>, <<2, 2, 1, 1, 3>>}

-----------------------------------------------------------------------------
(* C arithmetic and array access *)

\* x >> 1 on a signed 32-bit value (arithmetic shift: floor division)
Sar1(x) == IF x >= 0 THEN x \div 2 ELSE -((1 - x) \div 2)

\* unsigned int (32 bits), kept as two 16-bit halves: hi * 65536 + lo
U32(n) == [hi |-> (n \div 65536) % 65536, lo |-> n % 65536]

\* u - 1 in unsigned arithmetic: 0 - 1 wraps to UINT_MAX
U32Dec(u) ==
    IF u.lo > 0 THEN [u EXCEPT !.lo = @ - 1]
    ELSE [hi |-> (u.hi + 65535) % 65536, lo |-> 65535]

U32Lt(u, v) == u.hi < v.hi \/ (u.hi = v.hi /\ u.lo < v.lo)

U32Pos(u) == u.hi > 0 \/ u.lo > 0

\* uint16_t conversion
U16(x) == x % 65536

InBounds(a, i) == i >= 0 /\ i < Len(a)

At(a, i) == a[i + 1]

\* a variant of Swap_index_values_P that leaves both values where they are
Swap_index_values_P_nothing(a, i, j) == a

Swap_index_values_P(a, i, j) ==
    [a EXCEPT ![i + 1] = a[j + 1], ![j + 1] = a[i + 1]]

\* what undefined behaviour can lead to: the process is killed, or it goes
\* on in a state the language says nothing about
UBOutcomes == {"crashed", "undefined"}

NoHeap == [ptr |-> "unset", live |-> FALSE, array |-> "unset",
           last_index |-> 0, size |-> 0,
           mallocs |-> 0, frees |-> 0, null_stores |-> 0]

NoList == [firstNode_ptr |-> 0, list_length |-> 0, data |-> <<>>, next_ptr |-> <<>>]

-----------------------------------------------------------------------------
(* Predicates on arrays used by the properties *)

IsSorted(a) == \A i \in 1..(Len(a) - 1) : a[i] <= a[i + 1]

Count(a, v) == Cardinality({i \in 1..Len(a) : a[i] = v})

IsPerm(a, b) ==
    /\ Len(a) = Len(b)
    /\ \A i \in 1..Len(a) : Count(a, a[i]) = Count(b, a[i])

\* max-heap property over the C indices 0..last
IsMaxHeap(a, last) ==
    \A i \in 1..last : At(a, (i - 1) \div 2) >= At(a, i)

-----------------------------------------------------------------------------
(* heapsort.c : Heap_sort(the_array, size)                                  *)
(* loc: size, last_index, first_non_leaf (Heap_max_heapify_bu / Heap_popS), *)
(*      current, sd_last, caller (the running Heap_sift_down),              *)
(*      sifts, cycles (how many sift-downs heapify called, how many         *)
(*      extraction cycles Heap_popS ran)                                    *)

\* the example of the specification for bottom-up heapify
HeapifyExample == <<4, 1, 3, 9, 7>>

HeapInputs == Arrays \cup Examples \cup {HeapifyExample}

InitHeapsort ==
    /\ the_array \in HeapInputs
    /\ input = the_array
    /\ pc = "hs_malloc"
    /\ accessed = {}
    /\ fault = "none"
    /\ heap = NoHeap
    /\ list = NoList
    /\ input_list = NoList
    /\ loc = [size |-> Len(the_array), last_index |-> 0, first_non_leaf |-> 0,
              current |-> 0, sd_last |-> 0, caller |-> "none",
              sifts |-> 0, cycles |-> 0]

\* Heap_init, line 132: malloc returns a descriptor or NULL
Heap_init_malloc ==
    /\ pc = "hs_malloc"
    /\ \E got \in {"H", "NULL"} :
          heap' = [heap EXCEPT !.ptr = got, !.live = (got = "H"),
                               !.mallocs = IF got = "H" THEN 1 ELSE 0]
    /\ pc' = "hs_store"
    /\ UNCHANGED <<the_array, input, accessed, fault, list, input_list, loc>>

\* Heap_init, line 133: new_max_heap->array = the_array, before the null check
Heap_init_store ==
    /\ pc = "hs_store"
    /\ IF heap.ptr = "NULL"
       THEN /\ fault' = "null_store"
            /\ heap' = [heap EXCEPT !.null_stores = @ + 1]
            /\ pc' \in UBOutcomes \cup {"hs_check"}
       ELSE /\ heap' = [heap EXCEPT !.array = "the_array"]
            /\ pc' = "hs_check"
            /\ UNCHANGED fault
    /\ UNCHANGED <<the_array, input, accessed, list, input_list, loc>>

\* Heap_init, lines 135-142, and Heap_max_heapify_bu, lines 251-252
Heap_init_check ==
    /\ pc = "hs_check"
    /\ IF heap.ptr = "NULL"
       THEN /\ pc' = "exited"
            /\ UNCHANGED <<heap, loc>>
       ELSE /\ heap' = [heap EXCEPT !.last_index = -1, !.size = loc.size]
            /\ loc' = [loc EXCEPT !.last_index = loc.size - 1,
                                  !.first_non_leaf = Sar1((loc.size - 1) - 1)]
            /\ pc' = "hs_heapify"
    /\ UNCHANGED <<the_array, input, accessed, fault, list, input_list>>

\* Heap_max_heapify_bu, lines 254-263, and Heap_popS, lines 277-279
Heap_max_heapify_bu ==
    /\ pc = "hs_heapify"
    /\ IF loc.first_non_leaf >= 0
       THEN /\ loc' = [loc EXCEPT !.current = loc.first_non_leaf,
                                  !.sd_last = loc.last_index,
                                  !.caller = "heapify",
                                  !.sifts = @ + 1]
            /\ pc' = "hs_sift"
            /\ UNCHANGED heap
       ELSE /\ heap' = [heap EXCEPT !.last_index = loc.last_index,
                                    !.size = loc.size,
                                    !.array = "the_array"]
            /\ loc' = [loc EXCEPT !.last_index = heap'.last_index]
            /\ pc' = "hs_pop"
    /\ UNCHANGED <<the_array, input, accessed, fault, list, input_list>>

\* a variant of line 198 that looks at the right child whenever it is
\* inside the array, also beyond last_index
SiftChild_beyond_last_index(a, current, last_index) ==
    LET left_child == 1 + 2 * current
        right_child == 2 + 2 * current
    IN  IF right_child < Len(a)
        THEN IF At(a, left_child) > At(a, right_child)
             THEN left_child ELSE right_child
        ELSE left_child

\* a variant of lines 195-200 that takes the smaller of the two children
SiftChild_smaller(a, current, last_index) ==
    LET left_child == 1 + 2 * current
        right_child == 2 + 2 * current
    IN  IF right_child <= last_index
        THEN IF At(a, left_child) < At(a, right_child)
             THEN left_child ELSE right_child
        ELSE left_child

\* a variant of line 199 that takes the left child when the two children
\* hold equal values (>= in place of >)
SiftChild_left_on_tie(a, current, last_index) ==
    LET left_child == 1 + 2 * current
        right_child == 2 + 2 * current
    IN  IF right_child <= last_index
        THEN IF At(a, left_child) >= At(a, right_child)
             THEN left_child ELSE right_child
        ELSE left_child

\* the child Heap_sift_down compares with the current value, lines 195-200
SiftChild(a, current, last_index) ==
    LET left_child == 1 + 2 * current
        right_child == 2 + 2 * current
    IN  IF right_child <= last_index
        THEN IF At(a, left_child) > At(a, right_child)
             THEN left_child ELSE right_child
        ELSE left_child

\* the indices one pass through the loop of Heap_sift_down touches
SiftTouched(current, last_index) ==
    {current, 1 + 2 * current}
        \cup (IF 2 + 2 * current <= last_index THEN {2 + 2 * current} ELSE {})

\* where Heap_sift_down returns to: the for loop of heapify (line 254,
\* first_non_leaf--) or the while loop of Heap_popS (line 284)
SiftReturn ==
    /\ loc' = IF loc.caller = "heapify"
              THEN [loc EXCEPT !.first_non_leaf = @ - 1, !.caller = "none"]
              ELSE [loc EXCEPT !.caller = "none"]
    /\ pc' = IF loc.caller = "heapify" THEN "hs_heapify"
             ELSE IF loc.caller = "pop" THEN "hs_pop" ELSE "done"

\* Heap_sift_down, lines 193-214: one pass through the while loop
Heap_sift_down ==
    /\ pc = "hs_sift"
    /\ UNCHANGED <<input, heap, list, input_list>>
    /\ IF 1 + 2 * loc.current <= loc.sd_last
       THEN IF \A i \in SiftTouched(loc.current, loc.sd_last) : InBounds(the_array, i)
            THEN LET child == SiftChild(the_array, loc.current, loc.sd_last)
                 IN  /\ accessed' = accessed \cup SiftTouched(loc.current, loc.sd_last)
                     /\ UNCHANGED fault
                     /\ IF At(the_array, child) > At(the_array, loc.current)
                        THEN /\ the_array' = Swap_index_values_P(the_array, child, loc.current)
                             /\ loc' = [loc EXCEPT !.current = child]
                             /\ pc' = "hs_sift"
                        ELSE /\ SiftReturn
                             /\ UNCHANGED the_array
            ELSE /\ fault' = "out_of_bounds"
                 /\ accessed' = accessed \cup SiftTouched(loc.current, loc.sd_last)
                 /\ pc' \in UBOutcomes
                 /\ UNCHANGED <<the_array, loc>>
       ELSE /\ SiftReturn
            /\ UNCHANGED <<the_array, accessed, fault>>

\* a variant of lines 284-290 that sifts down over the heap as it was before
\* last_index-- (Heap_sift_down called with the old last_index)
Heap_popS_sift_old_region ==
    /\ pc = "hs_pop"
    /\ UNCHANGED <<input, heap, list, input_list>>
    /\ IF loc.last_index # 0
       THEN IF InBounds(the_array, 0) /\ InBounds(the_array, loc.last_index)
            THEN /\ the_array' = Swap_index_values_P(the_array, 0, loc.last_index)
                 /\ accessed' = accessed \cup {0, loc.last_index}
                 /\ loc' = [loc EXCEPT !.last_index = @ - 1,
                                       !.current = 0,
                                       !.sd_last = loc.last_index,
                                       !.caller = "pop",
                                       !.cycles = @ + 1]
                 /\ pc' = "hs_sift"
                 /\ UNCHANGED fault
            ELSE /\ fault' = "out_of_bounds"
                 /\ accessed' = accessed \cup {0, loc.last_index}
                 /\ pc' \in UBOutcomes
                 /\ UNCHANGED <<the_array, loc>>
       ELSE /\ pc' = "hs_destroy"
            /\ UNCHANGED <<the_array, accessed, fault, loc>>

\* Heap_popS, lines 284-290: one pass through the extraction loop
Heap_popS ==
    /\ pc = "hs_pop"
    /\ UNCHANGED <<input, heap, list, input_list>>
    /\ IF loc.last_index # 0
       THEN IF InBounds(the_array, 0) /\ InBounds(the_array, loc.last_index)
            THEN /\ the_array' = Swap_index_values_P(the_array, 0, loc.last_index)
                 /\ accessed' = accessed \cup {0, loc.last_index}
                 /\ loc' = [loc EXCEPT !.last_index = @ - 1,
                                       !.current = 0,
                                       !.sd_last = loc.last_index - 1,
                                       !.caller = "pop",
                                       !.cycles = @ + 1]
                 /\ pc' = "hs_sift"
                 /\ UNCHANGED fault
            ELSE /\ fault' = "out_of_bounds"
                 /\ accessed' = accessed \cup {0, loc.last_index}
                 /\ pc' \in UBOutcomes
                 /\ UNCHANGED <<the_array, loc>>
       ELSE /\ pc' = "hs_destroy"
            /\ UNCHANGED <<the_array, accessed, fault, loc>>

\* a variant of Heap_destroy that sets the handle to NULL without free
Heap_destroy_without_free ==
    /\ pc = "hs_destroy"
    /\ heap' = [heap EXCEPT !.ptr = "NULL"]
    /\ pc' = "done"
    /\ UNCHANGED <<the_array, input, accessed, fault, list, input_list, loc>>

\* Heap_destroy, lines 147-157, called at line 304; Heap_sort returns
Heap_destroy ==
    /\ pc = "hs_destroy"
    /\ IF heap.ptr = "NULL"
       THEN UNCHANGED heap
       ELSE heap' = [heap EXCEPT !.live = FALSE, !.frees = @ + 1, !.ptr = "NULL"]
    /\ pc' = "done"
    /\ UNCHANGED <<the_array, input, accessed, fault, list, input_list, loc>>

NextHeapsort ==
    \/ Heap_init_malloc
    \/ Heap_init_store
    \/ Heap_init_check
    \/ Heap_max_heapify_bu
    \/ Heap_sift_down
    \/ Heap_popS
    \/ Heap_destroy

SpecHeapsort == InitHeapsort /\ [][NextHeapsort]_vars

\* the run is over: returned, exited, killed, or lost to undefined behaviour
Ended == pc \in {"done", "exited", "crashed", "undefined"}

\* Heap_sort applied to an array and then once more to the result
\* loc: as for Heap_sort, and round (the first or the second call),
\*      first_result (the array as the first call left it)
InitHeapsortTwice ==
    /\ the_array \in HeapInputs
    /\ input = the_array
    /\ pc = "hs_malloc"
    /\ accessed = {}
    /\ fault = "none"
    /\ heap = NoHeap
    /\ list = NoList
    /\ input_list = NoList
    /\ loc = [size |-> Len(the_array), last_index |-> 0, first_non_leaf |-> 0,
              current |-> 0, sd_last |-> 0, caller |-> "none",
              sifts |-> 0, cycles |-> 0, round |-> 1, first_result |-> <<>>]

\* the first call has returned: Heap_sort(the_array, size) is called again
Heap_sort_again ==
    /\ pc = "done"
    /\ loc.round = 1
    /\ loc' = [loc EXCEPT !.last_index = 0, !.first_non_leaf = 0, !.current = 0,
                          !.sd_last = 0, !.caller = "none", !.sifts = 0,
                          !.cycles = 0, !.round = 2, !.first_result = the_array]
    /\ heap' = NoHeap
    /\ pc' = "hs_malloc"
    /\ UNCHANGED <<the_array, input, accessed, fault, list, input_list>>

NextHeapsortTwice ==
    \/ NextHeapsort
    \/ Heap_sort_again

SpecHeapsortTwice == InitHeapsortTwice /\ [][NextHeapsortTwice]_vars


-----------------------------------------------------------------------------
(* sorting.c : Sort_quicksort_array(the_array, index_start, index_end)      *)
(* loc: index_start, index_end (the arguments of the outermost call),       *)
(*      stack (the active calls, innermost last: index_start, index_end,    *)
(*      pivot, and at = which of its statements the call is in),            *)
(*      pivot_value, left, right (the running Partition_hoare_P),           *)
(*      partitions, calls (how many partitions / calls were made)           *)

Frame(s, e) == [index_start |-> s, index_end |-> e, pivot |-> 0, at |-> "entry"]

Top(stack) == stack[Len(stack)]

SetTop(stack, f) == [stack EXCEPT ![Len(stack)] = f]

Pop(stack) == SubSeq(stack, 1, Len(stack) - 1)

\* the 2-element region of the specification's base-case example
QuickExample == <<9, 4>>

\* the calls of the model: every region index_start <= index_end of every array
QuickInputs ==
    {<<a, s, e>> \in (Arrays \cup {QuickExample}) \X (0..(MaxLen - 1)) \X (0..(MaxLen - 1)) :
        s <= e /\ e < Len(a)}

InitQuicksort ==
    /\ \E c \in QuickInputs :
          /\ the_array = c[1]
          /\ loc = [index_start |-> c[2], index_end |-> c[3],
                    stack |-> <<Frame(c[2], c[3])>>,
                    pivot_value |-> 0, left |-> 0, right |-> 0,
                    partitions |-> 0, calls |-> 1]
    /\ input = the_array
    /\ pc = "qs_call"
    /\ accessed = {}
    /\ fault = "none"
    /\ heap = NoHeap
    /\ list = NoList
    /\ input_list = NoList

\* a variant of the length of line 367 that leaves out the + 1
RegionLength_without_last(index_start, index_end) == U16(index_end - index_start)

\* a variant of the length of line 367 that is not cut to 16 bits
RegionLength_without_wrap(index_start, index_end) == (index_end + 1) - index_start

\* line 367: uint16_t array_length = (index_end+1) - index_start
RegionLength(index_start, index_end) == U16((index_end + 1) - index_start)

\* the step made an access outside the array
OutOfBounds(touched) ==
    /\ fault' = "out_of_bounds"
    /\ accessed' = accessed \cup touched
    /\ pc' \in UBOutcomes
    /\ UNCHANGED <<the_array, input, heap, list, input_list, loc>>

\* Sort_quicksort_array, lines 367-381, and Partition_hoare_P, lines 50-53:
\* the base case, or the start of the partition
Sort_quicksort_array ==
    /\ pc = "qs_call"
    /\ LET f == Top(loc.stack)
           array_length == RegionLength(f.index_start, f.index_end)
       IN  IF array_length <= 2
           THEN IF array_length = 2
                THEN IF InBounds(the_array, f.index_start) /\ InBounds(the_array, f.index_end)
                     THEN /\ the_array' =
                                IF At(the_array, f.index_start) > At(the_array, f.index_end)
                                THEN Swap_index_values_P(the_array, f.index_start, f.index_end)
                                ELSE the_array
                          /\ accessed' = accessed \cup {f.index_start, f.index_end}
                          /\ pc' = "qs_return"
                          /\ UNCHANGED <<input, fault, heap, list, input_list, loc>>
                     ELSE OutOfBounds({f.index_start, f.index_end})
                ELSE /\ pc' = "qs_return"
                     /\ UNCHANGED <<the_array, input, accessed, fault, heap, list,
                                    input_list, loc>>
           ELSE IF InBounds(the_array, f.index_end)
                THEN /\ loc' = [loc EXCEPT !.pivot_value = At(the_array, f.index_end),
                                           !.left = f.index_start,
                                           !.right = f.index_end,
                                           !.partitions = @ + 1]
                     /\ accessed' = accessed \cup {f.index_end}
                     /\ pc' = "qs_partition"
                     /\ UNCHANGED <<the_array, input, fault, heap, list, input_list>>
                ELSE OutOfBounds({f.index_end})

\* a variant of Partition_hoare_P that returns left without the swap of
\* line 67
Partition_hoare_P_without_final_swap ==
    /\ pc = "qs_partition"
    /\ LET f == Top(loc.stack)
       IN  IF loc.right > loc.left
           THEN /\ pc' = "qs_scan_left"
                /\ UNCHANGED <<the_array, input, accessed, fault, heap, list,
                               input_list, loc>>
           ELSE /\ IF f.at = "partition"
                   THEN /\ loc' = [loc EXCEPT
                                     !.stack = SetTop(loc.stack,
                                                      [f EXCEPT !.pivot = loc.left])]
                        /\ pc' = "done"
                   ELSE /\ loc' = [loc EXCEPT
                                     !.stack = Append(
                                         SetTop(loc.stack, [f EXCEPT !.pivot = loc.left,
                                                                     !.at = "first"]),
                                         Frame(f.index_start, U16(loc.left - 1))),
                                     !.calls = @ + 1]
                        /\ pc' = "qs_call"
                /\ UNCHANGED <<the_array, accessed, input, fault, heap, list, input_list>>

\* Partition_hoare_P, line 56 and lines 67-69: the test of the outer loop,
\* and after the loop the return to Sort_quicksort_array, which makes its
\* first recursive call (line 383), or to the caller of a call on its own
Partition_hoare_P ==
    /\ pc = "qs_partition"
    /\ LET f == Top(loc.stack)
       IN  IF loc.right > loc.left
           THEN /\ pc' = "qs_scan_left"
                /\ UNCHANGED <<the_array, input, accessed, fault, heap, list,
                               input_list, loc>>
           ELSE IF InBounds(the_array, loc.left) /\ InBounds(the_array, f.index_end)
                THEN /\ the_array' = Swap_index_values_P(the_array, loc.left, f.index_end)
                     /\ accessed' = accessed \cup {loc.left, f.index_end}
                     /\ IF f.at = "partition"
                        THEN /\ loc' = [loc EXCEPT
                                          !.stack = SetTop(loc.stack,
                                                           [f EXCEPT !.pivot = loc.left])]
                             /\ pc' = "done"
                        ELSE /\ loc' = [loc EXCEPT
                                          !.stack = Append(
                                              SetTop(loc.stack, [f EXCEPT !.pivot = loc.left,
                                                                          !.at = "first"]),
                                              Frame(f.index_start, U16(loc.left - 1))),
                                          !.calls = @ + 1]
                             /\ pc' = "qs_call"
                     /\ UNCHANGED <<input, fault, heap, list, input_list>>
                ELSE OutOfBounds({loc.left, f.index_end})

\* a variant of lines 57-59 without the test left < right
Partition_scan_left_unbounded ==
    /\ pc = "qs_scan_left"
    /\ IF InBounds(the_array, loc.left)
       THEN /\ accessed' = accessed \cup {loc.left}
            /\ IF At(the_array, loc.left) <= loc.pivot_value
               THEN /\ loc' = [loc EXCEPT !.left = U16(@ + 1)]
                    /\ pc' = "qs_scan_left"
               ELSE /\ pc' = "qs_scan_right"
                    /\ UNCHANGED loc
            /\ UNCHANGED <<the_array, input, fault, heap, list, input_list>>
       ELSE OutOfBounds({loc.left})

\* Partition_hoare_P, lines 57-59: one test of the first inner loop
Partition_scan_left ==
    /\ pc = "qs_scan_left"
    /\ IF InBounds(the_array, loc.left)
       THEN /\ accessed' = accessed \cup {loc.left}
            /\ IF At(the_array, loc.left) <= loc.pivot_value /\ loc.left < loc.right
               THEN /\ loc' = [loc EXCEPT !.left = U16(@ + 1)]
                    /\ pc' = "qs_scan_left"
               ELSE /\ pc' = "qs_scan_right"
                    /\ UNCHANGED loc
            /\ UNCHANGED <<the_array, input, fault, heap, list, input_list>>
       ELSE OutOfBounds({loc.left})

\* Partition_hoare_P, lines 61-64: one test of the second inner loop, and
\* the swap that follows it
Partition_scan_right ==
    /\ pc = "qs_scan_right"
    /\ IF InBounds(the_array, loc.right)
       THEN IF At(the_array, loc.right) >= loc.pivot_value /\ loc.right > loc.left
            THEN /\ loc' = [loc EXCEPT !.right = U16(@ - 1)]
                 /\ accessed' = accessed \cup {loc.right}
                 /\ pc' = "qs_scan_right"
                 /\ UNCHANGED <<the_array, input, fault, heap, list, input_list>>
            ELSE IF InBounds(the_array, loc.left)
                 THEN /\ the_array' = Swap_index_values_P(the_array, loc.left, loc.right)
                      /\ accessed' = accessed \cup {loc.left, loc.right}
                      /\ pc' = "qs_partition"
                      /\ UNCHANGED <<input, fault, heap, list, input_list, loc>>
                 ELSE OutOfBounds({loc.left, loc.right})
       ELSE OutOfBounds({loc.right})

\* Sort_quicksort_array returns, lines 377 and 385; its caller goes on to
\* the second recursive call, line 384, or returns in its turn
Sort_quicksort_return ==
    /\ pc = "qs_return"
    /\ LET rest == Pop(loc.stack)
       IN  IF rest = <<>>
           THEN /\ loc' = [loc EXCEPT !.stack = rest]
                /\ pc' = "done"
           ELSE LET f == Top(rest)
                IN  IF f.at = "first"
                    THEN /\ loc' = [loc EXCEPT
                                      !.stack = Append(
                                          SetTop(rest, [f EXCEPT !.at = "second"]),
                                          Frame(U16(f.pivot + 1), f.index_end)),
                                      !.calls = @ + 1]
                         /\ pc' = "qs_call"
                    ELSE /\ loc' = [loc EXCEPT !.stack = rest]
                         /\ pc' = "qs_return"
    /\ UNCHANGED <<the_array, input, accessed, fault, heap, list, input_list>>

NextQuicksort ==
    \/ Sort_quicksort_array
    \/ Partition_hoare_P
    \/ Partition_scan_left
    \/ Partition_scan_right
    \/ Sort_quicksort_return

SpecQuicksort == InitQuicksort /\ [][NextQuicksort]_vars

\* Partition_hoare_P called on its own, on any region index_start <= index_end
\* of any array
InitPartition ==
    /\ \E c \in QuickInputs :
          /\ the_array = c[1]
          /\ loc = [index_start |-> c[2], index_end |-> c[3],
                    stack |-> <<[Frame(c[2], c[3]) EXCEPT !.at = "partition"]>>,
                    pivot_value |-> 0, left |-> 0, right |-> 0,
                    partitions |-> 0, calls |-> 0]
    /\ input = the_array
    /\ pc = "qs_partition_call"
    /\ accessed = {}
    /\ fault = "none"
    /\ heap = NoHeap
    /\ list = NoList
    /\ input_list = NoList

\* Partition_hoare_P, lines 50-53: pivot_value, pivot_index, left, right
Partition_hoare_P_call ==
    /\ pc = "qs_partition_call"
    /\ LET f == Top(loc.stack)
       IN  IF InBounds(the_array, f.index_end)
           THEN /\ loc' = [loc EXCEPT !.pivot_value = At(the_array, f.index_end),
                                      !.left = f.index_start,
                                      !.right = f.index_end,
                                      !.partitions = @ + 1]
                /\ accessed' = accessed \cup {f.index_end}
                /\ pc' = "qs_partition"
                /\ UNCHANGED <<the_array, input, fault, heap, list, input_list>>
           ELSE OutOfBounds({f.index_end})

NextPartition ==
    \/ Partition_hoare_P_call
    \/ Partition_hoare_P
    \/ Partition_scan_left
    \/ Partition_scan_right

SpecPartition == InitPartition /\ [][NextPartition]_vars

FairSpecPartition == SpecPartition /\ WF_vars(NextPartition)

\* the region index_start..index_end of a C array, as a sequence
Region(a, index_start, index_end) ==
    [i \in 1..(index_end - index_start + 1) |-> At(a, index_start + i - 1)]

-----------------------------------------------------------------------------
(* sorting.c : Sort_bubble(head_ptr), the version with a pass counter       *)
(* list: firstNode_ptr and list_length (the Head), data and next_ptr of the *)
(*      nodes; a node is a number 1..n and 0 is the null pointer            *)
(* loc: first_node, current_node, elements, left, passes (how many times    *)
(*      the loop at one_pass was entered)                                   *)

NULL == 0

\* a list of the values of d: the nodes laid out in memory in list order, or
\* the other way round
ListOf(d, layout) ==
    LET n == Len(d)
    IN  IF layout = "forward"
        THEN [firstNode_ptr |-> IF n = 0 THEN NULL ELSE 1,
              list_length |-> n,
              data |-> d,
              next_ptr |-> [i \in 1..n |-> IF i = n THEN NULL ELSE i + 1]]
        ELSE [firstNode_ptr |-> n,
              list_length |-> n,
              data |-> [i \in 1..n |-> d[n + 1 - i]],
              next_ptr |-> [i \in 1..n |-> i - 1]]

\* the data of the nodes, from the first node along next_ptr
RECURSIVE Walk(_, _, _)
Walk(l, node, fuel) ==
    IF node = NULL \/ fuel = 0 THEN <<>>
    ELSE <<l.data[node]>> \o Walk(l, l.next_ptr[node], fuel - 1)

ListData(l) == Walk(l, l.firstNode_ptr, Len(l.data))

InitBubble ==
    /\ \E d \in Arrays, layout \in {"forward", "backward"} : list = ListOf(d, layout)
    /\ input_list = list
    /\ pc = "bl_entry"
    /\ the_array = <<>>
    /\ input = <<>>
    /\ accessed = {}
    /\ fault = "none"
    /\ heap = NoHeap
    /\ loc = [first_node |-> NULL, current_node |-> NULL,
              elements |-> U32(0), left |-> U32(0), passes |-> 0]

\* a variant of Swap_nodes_P that exchanges the links of the nodes as well
Swap_nodes_and_links(l, node1, node2) ==
    [l EXCEPT !.data = [@ EXCEPT ![node1] = l.data[node2],
                                 ![node2] = l.data[node1]],
              !.next_ptr = [@ EXCEPT ![node1] = l.next_ptr[node2],
                                     ![node2] = l.next_ptr[node1]]]

\* Swap_nodes_P, lines 6-20: the data of the two nodes change places
Swap_nodes_P(l, node1, node2) ==
    [l EXCEPT !.data = [@ EXCEPT ![node1] = l.data[node2],
                                 ![node2] = l.data[node1]]]

\* Sort_bubble, lines 150-156: the locals, and the first entry at one_pass
Sort_bubble_entry ==
    /\ pc = "bl_entry"
    /\ loc' = [loc EXCEPT !.first_node = list.firstNode_ptr,
                          !.elements = U32Dec(U32(list.list_length)),
                          !.current_node = list.firstNode_ptr,
                          !.left = U32Dec(U32(list.list_length)),
                          !.passes = 1]
    /\ pc' = "bl_loop"
    /\ UNCHANGED <<the_array, input, accessed, fault, heap, list, input_list>>

\* Sort_bubble, lines 156-165: one test of the for loop and its body
Sort_bubble_loop ==
    /\ pc = "bl_loop"
    /\ UNCHANGED <<the_array, input, accessed, heap, input_list>>
    /\ IF U32Pos(loc.left)
       THEN IF loc.current_node = NULL \/ list.next_ptr[loc.current_node] = NULL
            THEN /\ fault' = "null_dereference"
                 /\ pc' \in UBOutcomes
                 /\ UNCHANGED <<list, loc>>
            ELSE LET next == list.next_ptr[loc.current_node]
                 IN  /\ list' = IF list.data[loc.current_node] > list.data[next]
                                THEN Swap_nodes_P(list, loc.current_node, next)
                                ELSE list
                     /\ loc' = [loc EXCEPT !.left = U32Dec(@),
                                           !.current_node = list'.next_ptr[loc.current_node]]
                     /\ pc' = "bl_loop"
                     /\ UNCHANGED fault
       ELSE /\ pc' = "bl_decide"
            /\ UNCHANGED <<fault, list, loc>>

\* a variant of lines 173-175 that tests elements before decrementing it
Sort_bubble_decide_test_first ==
    /\ pc = "bl_decide"
    /\ IF U32Pos(loc.elements)
       THEN /\ loc' = [loc EXCEPT !.elements = U32Dec(loc.elements),
                                  !.current_node = loc.first_node,
                                  !.left = U32Dec(loc.elements),
                                  !.passes = @ + 1]
            /\ pc' = "bl_loop"
       ELSE /\ loc' = [loc EXCEPT !.elements = U32Dec(loc.elements)]
            /\ pc' = "done"
    /\ UNCHANGED <<the_array, input, accessed, fault, heap, list, input_list>>

\* Sort_bubble, lines 173-177: --elements, and back to one_pass or return
Sort_bubble_decide ==
    /\ pc = "bl_decide"
    /\ LET elements == U32Dec(loc.elements)
       IN  IF U32Pos(elements)
           THEN /\ loc' = [loc EXCEPT !.elements = elements,
                                      !.current_node = loc.first_node,
                                      !.left = elements,
                                      !.passes = @ + 1]
                /\ pc' = "bl_loop"
           ELSE /\ loc' = [loc EXCEPT !.elements = elements]
                /\ pc' = "done"
    /\ UNCHANGED <<the_array, input, accessed, fault, heap, list, input_list>>

NextBubble ==
    \/ Sort_bubble_entry
    \/ Sort_bubble_loop
    \/ Sort_bubble_decide

SpecBubble == InitBubble /\ [][NextBubble]_vars

-----------------------------------------------------------------------------
(* sorting.c : Sort_bubble(head_ref), the version that checks after each    *)
(* pass whether another pass is needed                                      *)
(* loc: first_node, current_node (of the loop that is running),             *)
(*      reference_value, passes (how many times one_pass was entered)       *)

InitBubbleRecheck ==
    /\ \E d \in Arrays, layout \in {"forward", "backward"} : list = ListOf(d, layout)
    /\ input_list = list
    /\ pc = "br_entry"
    /\ the_array = <<>>
    /\ input = <<>>
    /\ accessed = {}
    /\ fault = "none"
    /\ heap = NoHeap
    /\ loc = [first_node |-> NULL, current_node |-> NULL,
              reference_value |-> 0, passes |-> 0]

\* Sort_bubble, lines 499-502: first_node, and the first entry at one_pass
Sort_bubble_recheck_entry ==
    /\ pc = "br_entry"
    /\ loc' = [loc EXCEPT !.first_node = list.firstNode_ptr,
                          !.current_node = list.firstNode_ptr,
                          !.passes = 1]
    /\ pc' = "br_pass"
    /\ UNCHANGED <<the_array, input, accessed, fault, heap, list, input_list>>

\* Sort_bubble, lines 502-514: one test of the first for loop and its body;
\* after the loop, reference_value and the start of the second loop
Sort_bubble_recheck_pass ==
    /\ pc = "br_pass"
    /\ UNCHANGED <<the_array, input, accessed, heap, input_list>>
    /\ IF loc.current_node = NULL
       THEN /\ fault' = "null_dereference"
            /\ pc' \in UBOutcomes
            /\ UNCHANGED <<list, loc>>
       ELSE LET next == list.next_ptr[loc.current_node]
            IN  IF next # NULL
                THEN /\ list' = IF list.data[loc.current_node] > list.data[next]
                                THEN Swap_nodes_P(list, loc.current_node, next)
                                ELSE list
                     /\ loc' = [loc EXCEPT !.current_node = next]
                     /\ pc' = "br_pass"
                     /\ UNCHANGED fault
                ELSE /\ loc' = [loc EXCEPT !.reference_value = list.data[loc.first_node],
                                           !.current_node = loc.first_node]
                     /\ pc' = "br_check"
                     /\ UNCHANGED <<fault, list>>

\* Sort_bubble, lines 515-522: one test of the second for loop and its body:
\* back to one_pass, on to the next node, or return
Sort_bubble_recheck_check ==
    /\ pc = "br_check"
    /\ IF loc.current_node = NULL
       THEN /\ pc' = "done"
            /\ UNCHANGED loc
       ELSE IF list.data[loc.current_node] < loc.reference_value
            THEN /\ loc' = [loc EXCEPT !.current_node = loc.first_node,
                                       !.passes = @ + 1]
                 /\ pc' = "br_pass"
            ELSE /\ loc' = [loc EXCEPT !.current_node = list.next_ptr[loc.current_node]]
                 /\ pc' = "br_check"
    /\ UNCHANGED <<the_array, input, accessed, fault, heap, list, input_list>>

NextBubbleRecheck ==
    \/ Sort_bubble_recheck_entry
    \/ Sort_bubble_recheck_pass
    \/ Sort_bubble_recheck_check

SpecBubbleRecheck == InitBubbleRecheck /\ [][NextBubbleRecheck]_vars

-----------------------------------------------------------------------------
(* sorting.c : Sort_bubble_array(chararray, array_length)                   *)
(* loc: array_length, elements, j, passes (passes of the outer loop begun)  *)

InitBubbleArray ==
    /\ the_array \in Arrays
    /\ input = the_array
    /\ pc = "ba_entry"
    /\ accessed = {}
    /\ fault = "none"
    /\ heap = NoHeap
    /\ list = NoList
    /\ input_list = NoList
    /\ loc = [array_length |-> Len(the_array), elements |-> U32(0), j |-> 0,
              passes |-> 0]

\* a variant of lines 249-253 with the comparison the other way round
BubbleCompareSwap_descending(a, j) ==
    IF At(a, j) < At(a, j + 1) THEN Swap_index_values_P(a, j, j + 1) ELSE a

\* lines 249-253: neighbours out of order change places
BubbleCompareSwap(a, j) ==
    IF At(a, j) > At(a, j + 1) THEN Swap_index_values_P(a, j, j + 1) ELSE a

\* line 246: unsigned int elements = array_length-1
Sort_bubble_array_entry ==
    /\ pc = "ba_entry"
    /\ loc' = [loc EXCEPT !.elements = U32Dec(U32(loc.array_length))]
    /\ pc' = "ba_outer"
    /\ UNCHANGED <<the_array, input, accessed, fault, heap, list, input_list>>

\* line 247: the test of the outer loop
Sort_bubble_array_outer ==
    /\ pc = "ba_outer"
    /\ IF U32Pos(loc.elements)
       THEN /\ loc' = [loc EXCEPT !.j = 0, !.passes = @ + 1]
            /\ pc' = "ba_inner"
       ELSE /\ pc' = "done"
            /\ UNCHANGED loc
    /\ UNCHANGED <<the_array, input, accessed, fault, heap, list, input_list>>

\* lines 248-254, and elements-- of line 247: one test of the inner loop
\* and its body
Sort_bubble_array_inner ==
    /\ pc = "ba_inner"
    /\ IF U32Lt(U32(loc.j), loc.elements)
       THEN IF InBounds(the_array, loc.j) /\ InBounds(the_array, loc.j + 1)
            THEN /\ the_array' = BubbleCompareSwap(the_array, loc.j)
                 /\ accessed' = accessed \cup {loc.j, loc.j + 1}
                 /\ loc' = [loc EXCEPT !.j = @ + 1]
                 /\ pc' = "ba_inner"
                 /\ UNCHANGED <<input, fault, heap, list, input_list>>
            ELSE OutOfBounds({loc.j, loc.j + 1})
       ELSE /\ loc' = [loc EXCEPT !.elements = U32Dec(@)]
            /\ pc' = "ba_outer"
            /\ UNCHANGED <<the_array, input, accessed, fault, heap, list, input_list>>

NextBubbleArray ==
    \/ Sort_bubble_array_entry
    \/ Sort_bubble_array_outer
    \/ Sort_bubble_array_inner

SpecBubbleArray == InitBubbleArray /\ [][NextBubbleArray]_vars

-----------------------------------------------------------------------------
(* sorting.c : Sort_selection_array(chararray, array_length)                *)
(* loc: array_length, passes_needed, current_index, j,                      *)
(*      current_smallest_value, smallest_value_index,                       *)
(*      passes (passes of the outer loop begun)                             *)

InitSelection ==
    /\ the_array \in Arrays
    /\ input = the_array
    /\ pc = "ss_entry"
    /\ accessed = {}
    /\ fault = "none"
    /\ heap = NoHeap
    /\ list = NoList
    /\ input_list = NoList
    /\ loc = [array_length |-> Len(the_array), passes_needed |-> U32(0),
              current_index |-> 0, j |-> 0,
              current_smallest_value |-> 0, smallest_value_index |-> 0,
              passes |-> 0]

\* a variant of lines 306-309 without the test for a length of 0 or 1
Sort_selection_array_entry_unguarded ==
    /\ pc = "ss_entry"
    /\ loc' = [loc EXCEPT !.passes_needed = U32Dec(U32(loc.array_length)),
                          !.current_index = 0]
    /\ pc' = "ss_outer"
    /\ UNCHANGED <<the_array, input, accessed, fault, heap, list, input_list>>

\* lines 306-309: passes_needed, and the test for a length of 0 or 1
Sort_selection_array_entry ==
    /\ pc = "ss_entry"
    /\ loc' = [loc EXCEPT !.passes_needed = U32Dec(U32(loc.array_length)),
                          !.current_index = 0]
    /\ pc' = IF ~(loc.array_length = 0 \/ loc.array_length = 1)
             THEN "ss_outer" ELSE "done"
    /\ UNCHANGED <<the_array, input, accessed, fault, heap, list, input_list>>

\* lines 312-319: the test of the outer loop and the start of a pass
Sort_selection_array_outer ==
    /\ pc = "ss_outer"
    /\ IF U32Lt(U32(loc.current_index), loc.passes_needed)
       THEN IF InBounds(the_array, loc.current_index)
            THEN /\ loc' = [loc EXCEPT
                              !.current_smallest_value = At(the_array, loc.current_index),
                              !.smallest_value_index = loc.current_index,
                              !.j = loc.current_index,
                              !.passes = @ + 1]
                 /\ accessed' = accessed \cup {loc.current_index}
                 /\ pc' = "ss_inner"
                 /\ UNCHANGED <<the_array, input, fault, heap, list, input_list>>
            ELSE OutOfBounds({loc.current_index})
       ELSE /\ pc' = "done"
            /\ UNCHANGED <<the_array, input, accessed, fault, heap, list,
                           input_list, loc>>

\* lines 323-333: one test of the inner loop and its body, or the swap that
\* ends the pass
Sort_selection_array_inner ==
    /\ pc = "ss_inner"
    /\ IF U32Lt(U32(loc.j), loc.passes_needed)
       THEN IF InBounds(the_array, loc.j + 1)
            THEN /\ loc' = IF At(the_array, loc.j + 1) < loc.current_smallest_value
                           THEN [loc EXCEPT
                                   !.current_smallest_value = At(the_array, loc.j + 1),
                                   !.smallest_value_index = loc.j + 1,
                                   !.j = @ + 1]
                           ELSE [loc EXCEPT !.j = @ + 1]
                 /\ accessed' = accessed \cup {loc.j + 1}
                 /\ pc' = "ss_inner"
                 /\ UNCHANGED <<the_array, input, fault, heap, list, input_list>>
            ELSE OutOfBounds({loc.j + 1})
       ELSE IF InBounds(the_array, loc.current_index)
                 /\ InBounds(the_array, loc.smallest_value_index)
            THEN /\ the_array' = Swap_index_values_P(the_array, loc.current_index,
                                                     loc.smallest_value_index)
                 /\ accessed' = accessed \cup {loc.current_index, loc.smallest_value_index}
                 /\ loc' = [loc EXCEPT !.current_index = @ + 1]
                 /\ pc' = "ss_outer"
                 /\ UNCHANGED <<input, fault, heap, list, input_list>>
            ELSE OutOfBounds({loc.current_index, loc.smallest_value_index})

NextSelection ==
    \/ Sort_selection_array_entry
    \/ Sort_selection_array_outer
    \/ Sort_selection_array_inner

SpecSelection == InitSelection /\ [][NextSelection]_vars

-----------------------------------------------------------------------------
(* sorting.c : Sort_insertion_array(chararray, array_length)                *)
(* loc: array_length, section_length, current_index, j                      *)

InitInsertion ==
    /\ the_array \in Arrays
    /\ input = the_array
    /\ pc = "is_entry"
    /\ accessed = {}
    /\ fault = "none"
    /\ heap = NoHeap
    /\ list = NoList
    /\ input_list = NoList
    /\ loc = [array_length |-> Len(the_array), section_length |-> 0,
              current_index |-> 0, j |-> 0]

\* a variant of lines 353-357 with the comparison the other way round
InsertionCompareSwap_descending(a, current_index, j) ==
    IF At(a, current_index) > At(a, j)
    THEN Swap_index_values_P(a, j, current_index) ELSE a

\* lines 353-357: the value at current_index changes places with a larger
\* one at j
InsertionCompareSwap(a, current_index, j) ==
    IF At(a, current_index) < At(a, j)
    THEN Swap_index_values_P(a, j, current_index) ELSE a

\* lines 348-350: section_length = 1, current_index = 1
Sort_insertion_array_entry ==
    /\ pc = "is_entry"
    /\ loc' = [loc EXCEPT !.section_length = 1, !.current_index = 1]
    /\ pc' = "is_outer"
    /\ UNCHANGED <<the_array, input, accessed, fault, heap, list, input_list>>

\* line 350: the test of the outer loop; line 352: j = 0
Sort_insertion_array_outer ==
    /\ pc = "is_outer"
    /\ IF U32Lt(U32(loc.current_index), U32(loc.array_length))
       THEN /\ loc' = [loc EXCEPT !.j = 0]
            /\ pc' = "is_inner"
       ELSE /\ pc' = "done"
            /\ UNCHANGED loc
    /\ UNCHANGED <<the_array, input, accessed, fault, heap, list, input_list>>

\* lines 352-359: one test of the inner loop (j <= section_length) and its
\* body, or the end of the outer iteration (section_length++, current_index++)
Sort_insertion_array_inner ==
    /\ pc = "is_inner"
    /\ IF loc.j <= loc.section_length
       THEN IF InBounds(the_array, loc.current_index) /\ InBounds(the_array, loc.j)
            THEN /\ the_array' = InsertionCompareSwap(the_array, loc.current_index, loc.j)
                 /\ accessed' = accessed \cup {loc.current_index, loc.j}
                 /\ loc' = [loc EXCEPT !.j = @ + 1]
                 /\ pc' = "is_inner"
                 /\ UNCHANGED <<input, fault, heap, list, input_list>>
            ELSE OutOfBounds({loc.current_index, loc.j})
       ELSE /\ loc' = [loc EXCEPT !.section_length = @ + 1, !.current_index = @ + 1]
            /\ pc' = "is_outer"
            /\ UNCHANGED <<the_array, input, accessed, fault, heap, list, input_list>>

NextInsertion ==
    \/ Sort_insertion_array_entry
    \/ Sort_insertion_array_outer
    \/ Sort_insertion_array_inner

SpecInsertion == InitInsertion /\ [][NextInsertion]_vars

FairSpecInsertion == SpecInsertion /\ WF_vars(NextInsertion)

(***************************************************************************)
(* Heap_max_heapify_td and Heap_sift_up (heapsort.c): the top-down heap     *)
(* construction, and Heap_sift_up called on its own with any array of at    *)
(* least one value and any index inside it                                  *)
(* loc: size, last_index, i (the for loop of Heap_max_heapify_td),          *)
(*      current_index (the argument of Heap_sift_up), current, parent,      *)
(*      caller ("heapify_td" or "call"), sifts (calls of Heap_sift_up)      *)
(***************************************************************************)
InitHeapifyTd ==
    /\ the_array \in Arrays
    /\ input = the_array
    /\ accessed = {}
    /\ fault = "none"
    /\ heap = NoHeap
    /\ list = NoList
    /\ input_list = NoList
    /\ \/ /\ pc = "hs_malloc"
          /\ loc = [size |-> Len(the_array), last_index |-> 0, i |-> 0,
                    current_index |-> 0, current |-> 0, parent |-> 0,
                    caller |-> "heapify_td", sifts |-> 0]
       \/ /\ pc = "hs_sift_up"
          /\ \E current_index \in 0..(Len(the_array) - 1) :
                loc = [size |-> Len(the_array), last_index |-> 0, i |-> 0,
                       current_index |-> current_index,
                       current |-> current_index,
                       parent |-> Sar1(current_index - 1),
                       caller |-> "call", sifts |-> 1]

\* a variant of lines 162 and 171 that divides by two, rounding toward zero
SiftUpParent_division(current_index) ==
    IF current_index >= 1 THEN (current_index - 1) \div 2 ELSE 0

\* Heap_sift_up, lines 162 and 171: parent = (current_index-1)>>1
SiftUpParent(current_index) == Sar1(current_index - 1)

\* Heap_init, lines 135-142, and Heap_max_heapify_td, lines 230-232
Heap_init_check_td ==
    /\ pc = "hs_check"
    /\ IF heap.ptr = "NULL"
       THEN /\ pc' = "exited"
            /\ UNCHANGED <<heap, loc>>
       ELSE /\ heap' = [heap EXCEPT !.last_index = -1, !.size = loc.size]
            /\ loc' = [loc EXCEPT !.last_index = loc.size - 1, !.i = 1]
            /\ pc' = "hs_td_loop"
    /\ UNCHANGED <<the_array, input, accessed, fault, list, input_list>>

\* Heap_max_heapify_td, lines 232-241: the for loop test, the call of
\* Heap_sift_up, and the update of the descriptor after the loop
Heap_max_heapify_td ==
    /\ pc = "hs_td_loop"
    /\ IF loc.i <= loc.last_index
       THEN /\ loc' = [loc EXCEPT !.current_index = loc.i,
                                  !.current = loc.i,
                                  !.parent = SiftUpParent(loc.i),
                                  !.sifts = @ + 1]
            /\ pc' = "hs_sift_up"
            /\ UNCHANGED heap
       ELSE /\ heap' = [heap EXCEPT !.last_index = loc.last_index,
                                    !.size = loc.size,
                                    !.array = "the_array"]
            /\ pc' = "done"
            /\ UNCHANGED loc
    /\ UNCHANGED <<the_array, input, accessed, fault, list, input_list>>

\* where Heap_sift_up returns to: the for loop of Heap_max_heapify_td
\* (line 232, i++) or the caller of a call on its own
SiftUpReturn ==
    /\ loc' = IF loc.caller = "heapify_td" THEN [loc EXCEPT !.i = @ + 1] ELSE loc
    /\ pc' = IF loc.caller = "heapify_td" THEN "hs_td_loop" ELSE "done"

\* Heap_sift_up, lines 164-178: one pass through the while loop
Heap_sift_up ==
    /\ pc = "hs_sift_up"
    /\ UNCHANGED <<input, heap, list, input_list>>
    /\ IF loc.parent >= 0
       THEN IF InBounds(the_array, loc.parent) /\ InBounds(the_array, loc.current)
            THEN /\ accessed' = accessed \cup {loc.parent, loc.current}
                 /\ UNCHANGED fault
                 /\ IF At(the_array, loc.parent) < At(the_array, loc.current)
                    THEN /\ the_array' = Swap_index_values_P(the_array, loc.current, loc.parent)
                         /\ loc' = [loc EXCEPT !.current = loc.parent,
                                               !.parent = SiftUpParent(loc.parent)]
                         /\ pc' = "hs_sift_up"
                    ELSE /\ SiftUpReturn
                         /\ UNCHANGED the_array
            ELSE /\ fault' = "out_of_bounds"
                 /\ accessed' = accessed \cup {loc.parent, loc.current}
                 /\ pc' \in UBOutcomes
                 /\ UNCHANGED <<the_array, loc>>
       ELSE /\ SiftUpReturn
            /\ UNCHANGED <<the_array, accessed, fault>>

NextHeapifyTd ==
    \/ Heap_init_malloc
    \/ Heap_init_store
    \/ Heap_init_check_td
    \/ Heap_max_heapify_td
    \/ Heap_sift_up

SpecHeapifyTd == InitHeapifyTd /\ [][NextHeapifyTd]_vars

(***************************************************************************)
(* Heap_sift_down called on its own: any array of at least one value, any  *)
(* last_index inside it and any current_index in [0, last_index]           *)
(***************************************************************************)
InitSiftDown ==
    /\ the_array \in {a \in Arrays : Len(a) >= 1}
    /\ input = the_array
    /\ pc = "hs_sift"
    /\ accessed = {}
    /\ fault = "none"
    /\ heap = NoHeap
    /\ list = NoList
    /\ input_list = NoList
    /\ \E last_index \in 0..(Len(the_array) - 1) :
          \E current_index \in 0..last_index :
             loc = [current_index |-> current_index, current |-> current_index,
                    sd_last |-> last_index, caller |-> "call"]

NextSiftDown == Heap_sift_down

SpecSiftDown == InitSiftDown /\ [][NextSiftDown]_vars

-----------------------------------------------------------------------------
(* Properties of Heap_sort, checked under SpecHeapsort *)

\* C1: for every sequence S of length n >= 0, Heap_sort(S, n) terminates
\* and leaves S a permutation of its input in non-decreasing order.  Stated
\* for the runs whose descriptor was allocated: once the run is over it has
\* returned, and the array is the sorted input.
C1_SortsEveryLength ==
    (heap.mallocs = 1 /\ Ended) =>
        /\ pc = "done"
        /\ IsSorted(the_array)
        /\ IsPerm(the_array, input)

\* C2: Heap_sort with n = 0 or n = 1 is a no-op: the array is never
\* changed, the extraction loop of Heap_popS runs no cycle, no index
\* outside [0, n-1] is read or written, and the call returns.
C2_ShortInputNoOp ==
    (heap.mallocs = 1 /\ Len(input) <= 1) =>
        /\ the_array = input
        /\ loc.cycles = 0
        /\ accessed \subseteq 0..(Len(input) - 1)
        /\ fault = "none"
        /\ (Ended => pc = "done")

\* C3: when malloc fails in Heap_init the process ends with a failure
\* exit, nothing having been stored through the null descriptor and the
\* array not having been modified.
C3_AllocFailureExitsCleanly ==
    (heap.ptr = "NULL" /\ heap.mallocs = 0) =>
        /\ heap.null_stores = 0
        /\ fault = "none"
        /\ the_array = input
        /\ (Ended => pc = "exited")

-----------------------------------------------------------------------------
(* The routines run to completion without yielding: a step that can be      *)
(* taken is taken.                                                          *)

FairSpecQuicksort == SpecQuicksort /\ WF_vars(NextQuicksort)

FairSpecBubble == SpecBubble /\ WF_vars(NextBubble)

FairSpecBubbleArray == SpecBubbleArray /\ WF_vars(NextBubbleArray)

FairSpecSelection == SpecSelection /\ WF_vars(NextSelection)

-----------------------------------------------------------------------------
(* Properties of Sort_quicksort_array, checked under FairSpecQuicksort *)

\* C4: Sort_quicksort_array(a, index_start, index_end) with
\* index_start <= index_end terminates and leaves a[index_start..index_end]
\* a non-decreasing permutation of the values the region held at the call.
C4_QuicksortSortsRegion ==
    /\ <>(pc = "done")
    /\ [](pc = "done" =>
            /\ IsSorted(Region(the_array, loc.index_start, loc.index_end))
            /\ IsPerm(Region(the_array, loc.index_start, loc.index_end),
                      Region(input, loc.index_start, loc.index_end)))

\* a call on a region of four values, with a duplicate, in descending
\* order has returned
C4_Witness ==
    /\ pc = "done"
    /\ loc.index_end - loc.index_start = 3
    /\ loc.partitions >= 1
    /\ \A i \in loc.index_start..(loc.index_end - 1) : At(input, i) >= At(input, i + 1)
    /\ At(input, loc.index_start) > At(input, loc.index_end)
    /\ \E i \in loc.index_start..(loc.index_end - 1) : At(input, i) = At(input, i + 1)

-----------------------------------------------------------------------------
(* Properties of Sort_bubble, checked under SpecBubble and FairSpecBubble *)

Nodes == Len(input_list.data)

\* C5: Sort_bubble on a list of zero nodes or one node is a no-op: it
\* returns with the list unchanged, dereferences no null node, and the pass
\* counter made from list_length-1 causes no further pass.
C5_ShortListNoOp ==
    Nodes <= 1 =>
        /\ fault = "none"
        /\ list = input_list
        /\ loc.passes <= 1
        /\ (Ended => pc = "done")

\* C7: Sort_bubble on a list of n >= 2 nodes whose list_length is n
\* terminates after exactly n-1 passes and leaves the data in ascending
\* order from the first node to the last, a permutation of the original.
C7_BubbleSortsList ==
    /\ <>Ended
    /\ []((Nodes >= 2 /\ Ended) =>
            /\ pc = "done"
            /\ loc.passes = Nodes - 1
            /\ IsSorted(ListData(list))
            /\ IsPerm(ListData(list), ListData(input_list)))

\* a call on a list of at least three nodes that were not in order has
\* returned
C7_Witness ==
    /\ pc = "done"
    /\ Nodes >= 3
    /\ ~IsSorted(ListData(input_list))
    /\ input_list.firstNode_ptr = Nodes

\* C8: Sort_bubble changes only the data of the nodes: at every point of a
\* call, and so after it, the head's first node, list_length and every
\* next_ptr are what they were before the call (nothing is said of a
\* process that undefined behaviour has killed or led astray).
C8_OnlyDataChanges ==
    pc \notin UBOutcomes =>
        /\ list.firstNode_ptr = input_list.firstNode_ptr
        /\ list.list_length = input_list.list_length
        /\ list.next_ptr = input_list.next_ptr

\* a call that swapped the data of nodes has returned
C8_Witness ==
    /\ pc = "done"
    /\ list.data # input_list.data
    /\ Nodes >= 3

-----------------------------------------------------------------------------
(* Properties of Sort_bubble_array, checked under SpecBubbleArray and       *)
(* FairSpecBubbleArray                                                      *)

\* C6: Sort_bubble_array with array_length = 0 returns without reading or
\* writing any element (array_length-1 in unsigned arithmetic starts no
\* pass); with array_length = 1 it returns the array unchanged.
C6_ShortArrayNoOp ==
    Len(input) <= 1 =>
        /\ accessed = {}
        /\ fault = "none"
        /\ loc.passes = 0
        /\ the_array = input
        /\ (Ended => pc = "done")

\* the last k positions of a hold its k largest values, in order
LargestInPlace(a, k) ==
    /\ \A i \in (Len(a) - k + 1)..(Len(a) - 1) : a[i] <= a[i + 1]
    /\ k >= 1 => \A i \in 1..(Len(a) - k) : a[i] <= a[Len(a) - k + 1]

\* C9: Sort_bubble_array on an array of length n >= 1 terminates and leaves
\* the array a non-decreasing permutation of its input; after the k-th
\* outer pass the last k positions hold the k largest values in their final
\* order.
C9_BubbleArraySorts ==
    /\ <>Ended
    /\ [](Len(input) >= 1 =>
            /\ Ended => (pc = "done" /\ IsSorted(the_array))
            /\ IsPerm(the_array, input)
            /\ pc = "ba_outer" => LargestInPlace(the_array, loc.passes))

\* two passes over four values are over and the array is not yet sorted
C9_Witness ==
    /\ pc = "ba_outer"
    /\ loc.passes = 2
    /\ Len(input) = 4
    /\ ~IsSorted(the_array)

-----------------------------------------------------------------------------
(* Properties of Sort_selection_array, checked under FairSpecSelection *)

\* C10: Sort_selection_array on an array of any length n >= 0 terminates
\* and leaves the array a non-decreasing permutation of its input, in n-1
\* passes for n >= 2 and touching no element for n = 0 or n = 1; no index
\* outside [0, n-1] is accessed.
C10_SelectionSorts ==
    /\ <>(pc = "done")
    /\ [](/\ accessed \subseteq 0..(Len(input) - 1)
          /\ fault = "none"
          /\ IsPerm(the_array, input)
          /\ Len(input) <= 1 => (accessed = {} /\ loc.passes = 0)
          /\ pc = "done" =>
                /\ IsSorted(the_array)
                /\ Len(input) >= 2 => loc.passes = Len(input) - 1)

\* a call on at least three values that were not in order, with a
\* duplicate, has returned
C10_Witness ==
    /\ pc = "done"
    /\ Len(input) >= 3
    /\ ~IsSorted(input)
    /\ \E i, k \in 1..Len(input) : i # k /\ input[i] = input[k]

-----------------------------------------------------------------------------
(* Properties of Sort_insertion_array, checked under FairSpecInsertion *)

\* the first k values of a are in non-decreasing order
PrefixSorted(a, k) == \A i \in 1..(k - 1) : i < Len(a) => a[i] <= a[i + 1]

\* C11: Sort_insertion_array on an array of any length n >= 0 terminates
\* and leaves the array a non-decreasing permutation of its input; after
\* the outer iteration for current_index = k the prefix [0..k] is
\* non-decreasing, and the inner loop (j from 0 to section_length
\* inclusive) never accesses an index >= n.
C11_InsertionSorts ==
    /\ <>(pc = "done")
    /\ [](/\ fault = "none"
          /\ accessed \subseteq 0..(Len(input) - 1)
          /\ IsPerm(the_array, input)
          /\ (pc = "is_outer" /\ loc.current_index >= 2) =>
                PrefixSorted(the_array, loc.current_index)
          /\ pc = "done" => IsSorted(the_array))

\* the outer iteration for current_index = 2 of a call on four values in
\* descending order is over
C11_Witness ==
    /\ pc = "is_outer"
    /\ loc.current_index = 3
    /\ Len(input) = 4
    /\ \A i \in 1..3 : input[i] >= input[i + 1]
    /\ input[1] > input[3]
    /\ the_array # input

-----------------------------------------------------------------------------
(* Properties of Heap_sort applied twice, checked under SpecHeapsortTwice *)

\* C12: Heap_sort is idempotent: for every sequence S, Heap_sort applied to
\* the result of Heap_sort(S) leaves the sequence equal to Heap_sort(S).
\* Stated for the calls whose descriptor was allocated: each call returns,
\* and the second leaves the array as the first left it.
C12_HeapsortIdempotent ==
    (heap.mallocs = 1 /\ Ended) =>
        /\ pc = "done"
        /\ loc.round = 2 => the_array = loc.first_result

-----------------------------------------------------------------------------
(* Properties of the heap descriptor, checked under SpecHeapsort *)

\* C13: every Heap_sort call that returns has allocated exactly one heap
\* descriptor and released it exactly once, the handle being NULL after
\* the release; the descriptor is not read after the release (the release
\* is the last step of the call) and none remains allocated at the return.
C13_DescriptorLifecycle ==
    /\ heap.frees >= 1 => pc = "done"
    /\ pc = "done" =>
          /\ heap.mallocs = 1
          /\ heap.frees = 1
          /\ heap.ptr = "NULL"
          /\ ~heap.live

\* a call on at least two values has returned
C13_Witness ==
    /\ pc = "done"
    /\ loc.cycles >= 1
    /\ heap.frees = 1

-----------------------------------------------------------------------------
(* Properties of Heap_max_heapify_bu and of the extraction loop of          *)
(* Heap_popS, checked under SpecHeapsort                                    *)

\* Heap_max_heapify_bu has returned and Heap_popS has not yet run a cycle
Heapified == pc = "hs_pop" /\ loc.cycles = 0

\* C14: for every sequence of length n >= 0, Heap_max_heapify_bu returns
\* with the sequence a permutation of its input that satisfies the max-heap
\* property over [0, n-1] and a descriptor whose last_index is n-1; for
\* n = 0 or n = 1 it makes no sift-down call.  (No fault happens inside
\* heapify: a fault, if any, is one of the extraction loop.)
C14_HeapifyBuildsHeap ==
    /\ fault = "out_of_bounds" => loc.caller # "heapify"
    /\ Heapified =>
          /\ IsPerm(the_array, input)
          /\ IsMaxHeap(the_array, Len(input) - 1)
          /\ heap.last_index = Len(input) - 1
          /\ heap.array = "the_array"
          /\ Len(input) <= 1 => loc.sifts = 0

\* heapify of [4,1,3,9,7] has returned, the array being [9,7,3,1,4]
C14_Witness ==
    /\ Heapified
    /\ input = HeapifyExample
    /\ the_array = <<9, 7, 3, 1, 4>>
    /\ loc.sifts = 2

\* C15: at the head of every iteration of the extraction loop of Heap_popS
\* (a heap of n >= 1 values built by heapify), the prefix [0, last_index]
\* satisfies the max-heap property, the suffix [last_index+1, n-1] is in
\* ascending order, and every suffix value is >= every prefix value; hence
\* when last_index reaches 0 the whole sequence is ascending.
C15_ExtractionLoopInvariant ==
    (pc = "hs_pop" /\ Len(input) >= 1) =>
        /\ IsMaxHeap(the_array, loc.last_index)
        /\ \A i \in (loc.last_index + 1)..(Len(input) - 2) :
              At(the_array, i) <= At(the_array, i + 1)
        /\ \A i \in 0..loc.last_index :
              \A k \in (loc.last_index + 1)..(Len(input) - 1) :
                 At(the_array, i) <= At(the_array, k)
        /\ loc.last_index = 0 => IsSorted(the_array)

\* two cycles of the extraction loop over four values are over, and the two
\* values still in the heap are not in ascending order
C15_Witness ==
    /\ pc = "hs_pop"
    /\ Len(input) = 4
    /\ loc.cycles = 2
    /\ loc.last_index = 1
    /\ At(the_array, 0) > At(the_array, 1)

\* C16: for a heap of size n, the extraction loop in Heap_popS performs
\* exactly n-1 cycles (swap root with last, shrink, sift down) without leaving
\* the array, and then stops with last_index = 0.
C16_ExtractionCycles ==
    /\ fault # "out_of_bounds"
    /\ pc = "hs_destroy" =>
          /\ loc.cycles = Len(input) - 1
          /\ loc.last_index = 0

\* k lies in the subtree rooted at r of the implicit binary tree
RECURSIVE InSubtree(_, _)
InSubtree(r, k) ==
    IF k <= r THEN k = r ELSE InSubtree(r, Sar1(k - 1))

\* the subtree rooted at r, cut at last_index, has the max-heap property
SubtreeHeap(a, r, last_index) ==
    \A k \in (r + 1)..last_index :
        InSubtree(r, k) => At(a, Sar1(k - 1)) >= At(a, k)

\* the child the contract names: the right one when it exists and is not
\* smaller than the left one
LargerChild(a, current, last_index) ==
    IF 2 + 2 * current <= last_index
          /\ At(a, 2 + 2 * current) >= At(a, 1 + 2 * current)
    THEN 2 + 2 * current
    ELSE 1 + 2 * current

C17_SiftStep ==
    pc = "hs_sift" =>
        IF 1 + 2 * loc.current > loc.sd_last
        THEN the_array' = the_array /\ pc' = "done"
        ELSE LET child == LargerChild(the_array, loc.current, loc.sd_last)
             IN  IF At(the_array, child) > At(the_array, loc.current)
                 THEN /\ the_array' = Swap_index_values_P(the_array, child, loc.current)
                      /\ loc'.current = child
                      /\ pc' = "hs_sift"
                 ELSE the_array' = the_array /\ pc' = "done"

C17_SiftPost ==
    /\ fault = "none"
    /\ IsPerm(the_array, input)
    /\ (/\ pc = "done"
        /\ SubtreeHeap(input, 1 + 2 * loc.current_index, loc.sd_last)
        /\ SubtreeHeap(input, 2 + 2 * loc.current_index, loc.sd_last))
          => SubtreeHeap(the_array, loc.current_index, loc.sd_last)

\* C17: Heap_sift_down(a, i, last_index): if the subtrees rooted at the
\* children of i are max-heaps within [0, last_index], then on return the
\* subtree rooted at i is a max-heap within [0, last_index]; every step swaps
\* the current value with its larger child (the right child when the two are
\* equal) only when that child is strictly greater, and the routine stops when
\* no child exceeds the current value or the left child is beyond last_index.
C17_SiftDownContract == []C17_SiftPost /\ [][C17_SiftStep]_vars

\* a call at the root whose children hold equal values, both greater than the
\* root: the value went to the right child and the routine returned
C17_Witness ==
    /\ pc = "done"
    /\ loc.current_index = 0
    /\ loc.sd_last = 3
    /\ At(input, 1) = At(input, 2)
    /\ At(input, 0) < At(input, 2)
    /\ SubtreeHeap(input, 1, 3)
    /\ loc.current = 2
    /\ the_array = Swap_index_values_P(input, 0, 2)

C18_SiftUpStep ==
    pc = "hs_sift_up" =>
        IF loc.parent >= 0 /\ At(the_array, loc.parent) < At(the_array, loc.current)
        THEN /\ the_array' = Swap_index_values_P(the_array, loc.current, loc.parent)
             /\ loc'.current = loc.parent
             /\ pc' = "hs_sift_up"
        ELSE /\ the_array' = the_array
             /\ pc' \in {"done", "hs_td_loop"}

C18_SiftUpPost ==
    /\ fault # "out_of_bounds"
    /\ \A k \in accessed : k >= 0
    /\ IsPerm(the_array, input)
    /\ (pc = "hs_sift_up" /\ loc.current = 0) => loc.parent = -1
    /\ (pc = "done" /\ loc.caller = "call"
           /\ IsMaxHeap(input, loc.current_index - 1))
          => IsMaxHeap(the_array, loc.current_index)
    /\ (pc = "done" /\ loc.caller = "heapify_td") =>
          /\ IsMaxHeap(the_array, Len(input) - 1)
          /\ heap.last_index = Len(input) - 1
          /\ loc.sifts = (IF Len(input) >= 1 THEN Len(input) - 1 ELSE 0)

\* C18: Heap_sift_up(a, i): if [0, i-1] has the max-heap property, then on
\* return [0, i] has it; the value moves upward only while it is strictly
\* greater than its parent; the loop stops at the root because (0-1)>>1 is -1,
\* with no access at a negative index; and Heap_max_heapify_td, which sifts up
\* the indices 1..n-1 in order, leaves [0, n-1] a max-heap with
\* last_index = n-1.
C18_SiftUpContract == []C18_SiftUpPost /\ [][C18_SiftUpStep]_vars

\* the top-down construction over <<0, 1, 1, 2>>: the last value climbed two
\* levels to the root and stopped there
C18_Witness ==
    /\ pc = "done"
    /\ loc.caller = "heapify_td"
    /\ input = <<0, 1, 1, 2>>
    /\ the_array = <<2, 1, 1, 0>>
    /\ loc.current = 0
    /\ loc.parent = -1
    /\ heap.last_index = 3

C19_PartitionPost ==
    /\ fault = "none"
    /\ pc = "done" =>
          LET p == Top(loc.stack).pivot
              pivot_value == At(input, loc.index_end)
          IN  /\ loc.index_start <= p
              /\ p <= loc.index_end
              /\ At(the_array, p) = pivot_value
              /\ \A k \in loc.index_start..(p - 1) : At(the_array, k) <= pivot_value
              /\ \A k \in (p + 1)..loc.index_end : At(the_array, k) >= pivot_value
              /\ IsPerm(Region(the_array, loc.index_start, loc.index_end),
                        Region(input, loc.index_start, loc.index_end))

\* C19: Partition_hoare_P(a, start, end) with start <= end returns an index
\* p, start <= p <= end, with a[p] the pivot value (the original a[end]),
\* every value of a[start..p-1] <= the pivot, every value of a[p+1..end] >=
\* the pivot, and a[start..end] a permutation of its original content.
C19_PartitionContract == <>(pc = "done") /\ []C19_PartitionPost

\* a returned partition of a region of four values, with the pivot strictly
\* inside the region and values moved
C19_Witness ==
    /\ pc = "done"
    /\ loc.index_start = 0
    /\ loc.index_end = 3
    /\ Top(loc.stack).pivot \in {1, 2}
    /\ the_array # input
    /\ At(input, 0) > At(input, 3)

\* the call of Sort_quicksort_array about to run is the first recursive call
\* of a caller whose partition returned pivot = index_start, or the second
\* one of a caller whose partition returned pivot = index_end
EmptySideCall ==
    /\ pc = "qs_call"
    /\ Len(loc.stack) >= 2
    /\ LET caller == loc.stack[Len(loc.stack) - 1]
       IN  \/ caller.at = "first" /\ caller.pivot = caller.index_start
           \/ caller.at = "second" /\ caller.pivot = caller.index_end

C20_EmptySideLength ==
    EmptySideCall =>
        LET caller == loc.stack[Len(loc.stack) - 1]
            f == Top(loc.stack)
        IN  /\ RegionLength(f.index_start, f.index_end) = 0
            /\ (caller.at = "first" /\ caller.index_start = 0)
                  => (f.index_start = 0 /\ f.index_end = 65535)
            /\ caller.at = "first"
                  => (f.index_start = caller.index_start
                         /\ (f.index_end + 1) % 65536 = caller.pivot)
            /\ caller.at = "second"
                  => (f.index_end = caller.index_end
                         /\ f.index_start = caller.pivot + 1)

C20_EmptySideStep ==
    EmptySideCall =>
        /\ pc' = "qs_return"
        /\ the_array' = the_array
        /\ accessed' = accessed
        /\ fault' = fault

\* C20: in Sort_quicksort_array, when the partition returns pivot =
\* index_start, the recursive call on [index_start, pivot-1] computes a region
\* length of 0 in 16-bit unsigned arithmetic (also for index_start = 0, where
\* pivot-1 wraps to 65535) and returns without reading or writing any array
\* element; likewise the call on [pivot+1, index_end] when pivot = index_end.
C20_EmptySideReturns == []C20_EmptySideLength /\ [][C20_EmptySideStep]_vars

\* the first recursive call of a caller with index_start = 0 = pivot has
\* returned: its region was [0, 65535] and no index outside the array was
\* touched
C20_Witness ==
    /\ pc = "qs_return"
    /\ Len(loc.stack) >= 2
    /\ loc.stack[Len(loc.stack) - 1].at = "first"
    /\ loc.stack[Len(loc.stack) - 1].pivot = 0
    /\ Top(loc.stack).index_start = 0
    /\ Top(loc.stack).index_end = 65535
    /\ \A k \in accessed : InBounds(the_array, k)

\* the call of Sort_quicksort_array about to run is on a region of length
\* <= 2: it returns at once without a partition or a further call, having
\* put a 2-element region in order by one compare and swap
C21_BaseCaseStep ==
    (pc = "qs_call"
        /\ RegionLength(Top(loc.stack).index_start, Top(loc.stack).index_end) <= 2) =>
        LET f == Top(loc.stack)
        IN  /\ pc' = "qs_return"
            /\ loc' = loc
            /\ fault' = fault
            /\ IF RegionLength(f.index_start, f.index_end) = 2
               THEN /\ accessed' = accessed \cup {f.index_start, f.index_end}
                    /\ the_array' \in
                          {the_array,
                           [the_array EXCEPT
                               ![f.index_start + 1] = the_array[f.index_end + 1],
                               ![f.index_end + 1] = the_array[f.index_start + 1]]}
                    /\ the_array'[f.index_start + 1] <= the_array'[f.index_end + 1]
                    /\ (the_array[f.index_start + 1] <= the_array[f.index_end + 1])
                          => the_array' = the_array
               ELSE /\ accessed' = accessed
                    /\ the_array' = the_array

\* a top-level call on a region of length <= 2 makes no partition and no
\* recursive call, and returns with the region in ascending order
C21_BaseCaseRun ==
    (loc.index_end - loc.index_start) + 1 <= 2 =>
        /\ loc.partitions = 0
        /\ loc.calls = 1
        /\ fault = "none"
        /\ pc \in {"qs_call", "qs_return", "done"}
        /\ pc = "done" =>
              /\ IsSorted(Region(the_array, loc.index_start, loc.index_end))
              /\ IsPerm(the_array, input)
              /\ loc.index_start = loc.index_end => the_array = input

\* C21: Sort_quicksort_array on a region of length <= 2 performs no partition
\* and no recursive call: a 2-element region is put in ascending order by a
\* single compare and conditional swap ([9,4] becomes [4,9]), and a region of
\* length 0 or 1 is left unchanged.
C21_QuicksortBaseCase == []C21_BaseCaseRun /\ [][C21_BaseCaseStep]_vars

\* the example: [9,4] has become [4,9] with one call and no partition
C21_Witness ==
    /\ pc = "done"
    /\ input = QuickExample
    /\ the_array = <<4, 9>>
    /\ loc.partitions = 0
    /\ loc.calls = 1
    /\ accessed = {0, 1}

\* C22: the Sort_bubble version that checks after each pass (a second loop
\* comparing the data of every node with the data of the first node, and
\* jumping back to one_pass when a smaller value is found) returns only when
\* the sorting is complete: for every non-empty list, on return the data of
\* the nodes are in ascending order.
C22_RecheckReturnsSorted ==
    (pc = "done" /\ Nodes >= 1) => IsSorted(ListData(list))

\* every access is inside the array, and a pass of Heap_sift_down made for
\* the extraction loop touches only indices of the heap [0, last_index]
C23_AccessFrame ==
    Len(input) >= 1 =>
        /\ fault # "out_of_bounds"
        /\ \A k \in accessed : 0 <= k /\ k <= Len(input) - 1
        /\ (pc = "hs_sift" /\ loc.caller = "pop") =>
              /\ loc.sd_last = loc.last_index
              /\ 1 + 2 * loc.current <= loc.sd_last =>
                    \A k \in SiftTouched(loc.current, loc.sd_last) :
                        0 <= k /\ k <= loc.last_index

\* a step of the extraction loop, or of a Heap_sift_down call made by it,
\* leaves the values of the sorted suffix as they are
C23_SuffixStep ==
    (/\ Len(input) >= 1
     /\ pc \in {"hs_pop", "hs_sift", "hs_destroy"}
     /\ pc = "hs_sift" => loc.caller = "pop") =>
        /\ Len(the_array') = Len(the_array)
        /\ \A k \in (loc.last_index + 1)..(Len(input) - 1) :
              At(the_array', k) = At(the_array, k)

\* C23: during Heap_sort on a sequence of length n >= 1, every array read and
\* write is at an index in [0, n-1], and each Heap_sift_down call made by the
\* extraction loop reads and writes only indices in [0, last_index], so the
\* values already placed in the sorted suffix [last_index+1, n-1] are never
\* modified again.
C23_HeapsortFrame == []C23_AccessFrame /\ [][C23_SuffixStep]_vars

\* Heap_sift_down is running for the extraction loop over four values with
\* two of them already in the sorted suffix, and every index has been touched
C23_Witness ==
    /\ pc = "hs_sift"
    /\ loc.caller = "pop"
    /\ Len(input) = 4
    /\ loc.last_index = 1
    /\ loc.current = 0
    /\ At(the_array, 0) < At(the_array, 1)
    /\ accessed = {0, 1, 2, 3}

C24_IndexFrame ==
    /\ fault = "none"
    /\ Len(the_array) = Len(input)
    /\ \A k \in accessed : loc.index_start <= k /\ k <= loc.index_end
    /\ \A k \in 0..(Len(input) - 1) :
          (k < loc.index_start \/ k > loc.index_end)
             => At(the_array, k) = At(input, k)
    /\ pc \in {"qs_partition", "qs_scan_left", "qs_scan_right"} =>
          LET f == Top(loc.stack)
          IN  /\ f.index_start <= loc.left /\ loc.left <= f.index_end
              /\ f.index_start <= loc.right /\ loc.right <= f.index_end
    /\ \A i \in 2..Len(loc.stack) :
          RegionLength(loc.stack[i].index_start, loc.stack[i].index_end)
             < RegionLength(loc.stack[i - 1].index_start, loc.stack[i - 1].index_end)

\* C24: during Sort_quicksort_array(a, index_start, index_end) with
\* index_start <= index_end, all recursive calls and Partition_hoare_P
\* included, the scan indices left and right stay within [start, end] of the
\* current region, every read and write of the array is inside
\* [index_start, index_end] of the top-level call (the elements outside it
\* are unchanged), and every recursive call is on a strictly shorter region,
\* so the recursion terminates.
C24_QuicksortIndexSafety == <>(pc = "done") /\ []C24_IndexFrame

\* a call on the region [1, 3] of four values has returned after a
\* partition and its two recursive calls, having touched that region only
C24_Witness ==
    /\ pc = "done"
    /\ Len(input) = 4
    /\ loc.index_start = 1
    /\ loc.index_end = 3
    /\ loc.partitions >= 1
    /\ loc.calls >= 3
    /\ accessed = {1, 2, 3}
    /\ the_array # input

=============================================================================
